---- MODULE Spec2Model ----
(***************************************************************************)
(* Model of useGridWithLineClamp and calculateOptimalLineDistribution.     *)
(*                                                                         *)
(* Heights are JavaScript numbers in the source.  The model draws line     *)
(* heights, paddings and scroll heights from integers, and carries every   *)
(* height that involves a per-row average as its numerator over the        *)
(* common denominator Scale (a row has 1 or 2 cells, so an average of      *)
(* integers is a multiple of 1/2 and Scale = 2 keeps it exact).            *)
(* Row and priority indices are 1-based here and 0-based in the source;    *)
(* priorityIndex keeps the source's 0-based value.                         *)
(***************************************************************************)
EXTENDS Integers, Sequences, FiniteSets, TLC

\* ---------------------------------------------------------------- constants
MinRowHeight == 160
HeightBudget == 740
MaxIterations == 200
ColumnsPerRow == 2
Scale == ColumnsPerRow

\* ------------------------------------------------------------------- bounds
MaxRows == 2
MaxNaturalLines == 3
MaxMinLines == 2
MaxBudgetSteps == 8
MaxGridItems == 3
MaxEffectRuns == 2

\* props versions of one RiveToSprite instance: the first render and the changes
MaxPropsVersions == 3

ScrollHeights == {40, 480}

\* ------------------------------------------------------------------ helpers
Max(a, b) == IF a >= b THEN a ELSE b
Min(a, b) == IF a <= b THEN a ELSE b
CeilDiv(a, b) == -((-a) \div b)

RECURSIVE SumOver(_, _)
SumOver(s, n) == IF n = 0 THEN 0 ELSE s[n] + SumOver(s, n - 1)

RECURSIVE MaxOver(_, _)
MaxOver(s, n) == IF n = 0 THEN 0 ELSE Max(s[n], MaxOver(s, n - 1))

\* ------------------------------------------------ calculateOptimalLineDistribution
\* rowAvgLineHeight and rowAvgPadding of getCurrentHeight, times Scale
rowAvgLineHeight(row) ==
    (Scale * SumOver([k \in 1..Len(row.cells) |-> row.cells[k].lineHeight], Len(row.cells)))
        \div Len(row.cells)

rowAvgPadding(row) ==
    (Scale * SumOver([k \in 1..Len(row.cells) |-> row.cells[k].cellPadding], Len(row.cells)))
        \div Len(row.cells)

\* mutation: the padding term is dropped from the sum
getCurrentHeightNoPadding(rows, allocation) ==
    SumOver([i \in 1..Len(rows) |-> allocation[i] * rowAvgLineHeight(rows[i])],
            Len(rows))

\* getCurrentHeight(allocation), times Scale
getCurrentHeight(rows, allocation) ==
    SumOver([i \in 1..Len(rows) |->
                allocation[i] * rowAvgLineHeight(rows[i]) + rowAvgPadding(rows[i])],
            Len(rows))

\* mutation: the floor is dropped from the ideal allocation
idealAllocationNoFloor(rows) ==
    [i \in 1..Len(rows) |-> rows[i].maxNaturalLines]

idealAllocation(rows) ==
    [i \in 1..Len(rows) |-> Max(rows[i].maxNaturalLines, rows[i].minLines)]

\* mutation: phase 2 starts from one line per row
minAllocationOneLine(rows) ==
    [i \in 1..Len(rows) |-> 1]

minAllocation(rows) ==
    [i \in 1..Len(rows) |-> rows[i].minLines]

\* mutation: strict comparison of idealHeight
IdealFitsStrict(rows, budget) ==
    getCurrentHeight(rows, idealAllocation(rows)) < Scale * budget

\* idealHeight <= maxTotalHeight
IdealFits(rows, budget) ==
    getCurrentHeight(rows, idealAllocation(rows)) <= Scale * budget

\* mutation: the tentative height is not compared with the budget
TestFitsUnchecked(testHeight, budget) == TRUE

\* mutation: strict comparison of testHeight
TestFitsStrict(testHeight, budget) == testHeight < Scale * budget

\* testHeight <= maxTotalHeight
TestFits(testHeight, budget) == testHeight <= Scale * budget

remainingNeed(row) == Max(0, row.maxNaturalLines - row.minLines)

PriorityItem(rows, i) ==
    [index |-> i,
     remainingNeed |-> remainingNeed(rows[i]),
     priority |-> rows[i].maxNaturalLines - rows[i].minLines]

\* mutation: rows with remainingNeed 0 stay in the list
RECURSIVE FilterNeedyInclusive(_, _)
FilterNeedyInclusive(rows, n) ==
    IF n = 0 THEN << >>
    ELSE IF PriorityItem(rows, n).remainingNeed >= 0
         THEN Append(FilterNeedyInclusive(rows, n - 1), PriorityItem(rows, n))
         ELSE FilterNeedyInclusive(rows, n - 1)

RECURSIVE FilterNeedy(_, _)
FilterNeedy(rows, n) ==
    IF n = 0 THEN << >>
    ELSE IF PriorityItem(rows, n).remainingNeed > 0
         THEN Append(FilterNeedy(rows, n - 1), PriorityItem(rows, n))
         ELSE FilterNeedy(rows, n - 1)

\* mutation: an unstable sort, a later row of equal priority is placed first
RECURSIVE InsertByPriorityUnstable(_, _)
InsertByPriorityUnstable(sorted, item) ==
    IF sorted = << >> THEN << item >>
    ELSE IF Head(sorted).priority > item.priority
         THEN << Head(sorted) >> \o InsertByPriorityUnstable(Tail(sorted), item)
         ELSE << item >> \o sorted

\* Array.prototype.sort with (a, b) => b.priority - a.priority: stable, descending
RECURSIVE InsertByPriority(_, _)
InsertByPriority(sorted, item) ==
    IF sorted = << >> THEN << item >>
    ELSE IF Head(sorted).priority >= item.priority
         THEN << Head(sorted) >> \o InsertByPriority(Tail(sorted), item)
         ELSE << item >> \o sorted

RECURSIVE SortByPriority(_, _)
SortByPriority(items, n) ==
    IF n = 0 THEN << >>
    ELSE InsertByPriority(SortByPriority(items, n - 1), items[n])

rowPrioritiesOf(rows) ==
    SortByPriority(FilterNeedy(rows, Len(rows)), Len(FilterNeedy(rows, Len(rows))))

hasNeedyRows(rows, prios, allocation) ==
    \E k \in 1..Len(prios) :
        allocation[prios[k].index] < rows[prios[k].index].maxNaturalLines

\* while (currentHeight < maxTotalHeight && priorityIndex < rowPriorities.length
\*        && iterations < maxIterations)
LoopCondition(height, budget, pIndex, prios, iters) ==
    /\ height < Scale * budget
    /\ pIndex < Len(prios)
    /\ iters < MaxIterations


\* ------------------------------------------------------- one loop iteration
\* st = [alloc, height, pIndex, iters, brk]: currentAllocation, currentHeight,
\* priorityIndex, iterations, and whether the iteration left by `break`
currentRow(prios, st) == prios[st.pIndex + 1].index

\* mutation: a row one line short of its maxNaturalLines is passed over as full
AlreadyFullOneEarly(rows, prios, st) ==
    st.alloc[currentRow(prios, st)] + 1 >= rows[currentRow(prios, st)].maxNaturalLines

\* mutation: > in place of >=
AlreadyFullOffByOne(rows, prios, st) ==
    st.alloc[currentRow(prios, st)] > rows[currentRow(prios, st)].maxNaturalLines

\* if (currentAllocation[rowIndex] >= row.maxNaturalLines)
AlreadyFull(rows, prios, st) ==
    st.alloc[currentRow(prios, st)] >= rows[currentRow(prios, st)].maxNaturalLines

\* testAllocation = [...currentAllocation]; testAllocation[rowIndex]++
testAllocation(prios, st) ==
    [st.alloc EXCEPT ![currentRow(prios, st)] = @ + 1]

testHeight(rows, prios, st) == getCurrentHeight(rows, testAllocation(prios, st))

\* priorityIndex after the if/else on testHeight
pointerAfterGrant(rows, prios, st) ==
    IF testAllocation(prios, st)[currentRow(prios, st)]
          >= rows[currentRow(prios, st)].maxNaturalLines
    THEN st.pIndex + 1
    ELSE st.pIndex

pointerAfterReject(st) == st.pIndex + 1

\* mutation: iterations++ is not reached on the path that wraps the pointer
wrapAndCountMissedOnWrap(rows, prios, st) ==
    IF st.pIndex >= Len(prios)
    THEN IF hasNeedyRows(rows, prios, st.alloc)
         THEN [st EXCEPT !.pIndex = 0]
         ELSE [st EXCEPT !.pIndex = 0, !.brk = TRUE]
    ELSE [st EXCEPT !.iters = @ + 1]

\* if (priorityIndex >= rowPriorities.length) { priorityIndex = 0; if (!hasNeedyRows) break }
\* iterations++
wrapAndCount(rows, prios, st) ==
    IF st.pIndex >= Len(prios)
    THEN IF hasNeedyRows(rows, prios, st.alloc)
         THEN [st EXCEPT !.pIndex = 0, !.iters = @ + 1]
         ELSE [st EXCEPT !.pIndex = 0, !.brk = TRUE]
    ELSE [st EXCEPT !.iters = @ + 1]

skipStep(st) == [st EXCEPT !.pIndex = @ + 1]

grantStep(rows, prios, st) ==
    wrapAndCount(rows, prios,
        [st EXCEPT !.alloc = testAllocation(prios, st),
                   !.height = testHeight(rows, prios, st),
                   !.pIndex = pointerAfterGrant(rows, prios, st)])

rejectStep(rows, prios, st) ==
    wrapAndCount(rows, prios, [st EXCEPT !.pIndex = pointerAfterReject(st)])

loopStep(rows, budget, prios, st) ==
    IF AlreadyFull(rows, prios, st) THEN skipStep(st)
    ELSE IF TestFits(testHeight(rows, prios, st), budget)
         THEN grantStep(rows, prios, st)
         ELSE rejectStep(rows, prios, st)

loopStart(rows) ==
    [alloc |-> minAllocation(rows),
     height |-> getCurrentHeight(rows, minAllocation(rows)),
     pIndex |-> 0, iters |-> 0, brk |-> FALSE]

loopRuns(budget, prios, st) ==
    /\ ~st.brk
    /\ LoopCondition(st.height, budget, st.pIndex, prios, st.iters)

\* The while loop: loopStep repeated until loopRuns fails.  Every iteration
\* either counts (at most MaxIterations of them) or skips a full row, and at
\* most Len(prios) skips come between two counted iterations, so the loop has
\* left within loopBound(prios) iterations.  The repetition is split in halves
\* to keep the evaluation depth logarithmic.
loopBound(prios) == (MaxIterations + 1) * (Len(prios) + 1)

RECURSIVE iterateLoop(_, _, _, _, _)
iterateLoop(rows, budget, prios, st, n) ==
    IF ~loopRuns(budget, prios, st) THEN st
    ELSE IF n <= 1 THEN loopStep(rows, budget, prios, st)
    ELSE iterateLoop(rows, budget, prios,
                     iterateLoop(rows, budget, prios, st, n \div 2),
                     n - (n \div 2))

runLoop(rows, budget, prios, st) ==
    iterateLoop(rows, budget, prios, st, loopBound(prios)).alloc

\* the function as a whole
calculateOptimalLineDistribution(rows, budget) ==
    IF IdealFits(rows, budget) THEN idealAllocation(rows)
    ELSE runLoop(rows, budget, rowPrioritiesOf(rows), loopStart(rows))

\* ------------------------------------------------------------------ inputs
Cell(nat, lh, pad) == [naturalLines |-> nat, lineHeight |-> lh, cellPadding |-> pad]

\* ------------------------------------------------- calculateGridWithLineClamp
\* a grid item as the DOM presents it: content.scrollHeight, getLineHeight(content),
\* getCellPadding(item)
\* hasContent: item.querySelector('#markdownContent') finds an element
GridItem(sh, lh, pad) ==
    [scrollHeight |-> sh, lineHeight |-> lh, cellPadding |-> pad, hasContent |-> TRUE]

\* a grid item without a '#markdownContent' element
BareItem == [scrollHeight |-> 0, lineHeight |-> 40, cellPadding |-> 0, hasContent |-> FALSE]

\* Math.ceil(naturalHeight / lineHeight)
naturalLinesOf(item) == CeilDiv(item.scrollHeight, item.lineHeight)

cellDataOf(item) ==
    Cell(naturalLinesOf(item), item.lineHeight, item.cellPadding)

\* rows.push(gridItems.slice(i, i + 2)) for i = 0, 2, 4, ...
rowItems(items, r) ==
    [k \in 1..Min(ColumnsPerRow, Len(items) - ColumnsPerRow * (r - 1)) |->
        items[ColumnsPerRow * (r - 1) + k]]

rowCountOf(items) == CeilDiv(Len(items), ColumnsPerRow)

\* Math.max(1, Math.ceil((160 - avgPadding) / avgLineHeight))
minLinesOf(cells) ==
    Max(1, CeilDiv(Scale * MinRowHeight - rowAvgPadding([cells |-> cells]),
                   rowAvgLineHeight([cells |-> cells])))

maxNaturalLinesOf(cells) ==
    MaxOver([k \in 1..Len(cells) |-> cells[k].naturalLines], Len(cells))

rowTextDataOf(items) ==
    [r \in 1..rowCountOf(items) |->
        LET cellData == [k \in 1..Len(rowItems(items, r)) |->
                            cellDataOf(rowItems(items, r)[k])]
        IN  [cells |-> cellData,
             maxNaturalLines |-> maxNaturalLinesOf(cellData),
             minLines |-> minLinesOf(cellData)]]

\* Math.min(allocatedLines, naturalLines)
clampLines(allocatedLines, cell) == Min(allocatedLines, cell.naturalLines)

textHeight(allocatedLines, cell) == clampLines(allocatedLines, cell) * cell.lineHeight

cellHeight(allocatedLines, cell) == textHeight(allocatedLines, cell) + cell.cellPadding

\* maxActualHeight of one row
maxActualHeight(allocatedLines, row) ==
    MaxOver([k \in 1..Len(row.cells) |-> cellHeight(allocatedLines, row.cells[k])],
            Len(row.cells))

actualRowHeights(rows, allocation) ==
    [r \in 1..Len(rows) |-> maxActualHeight(allocation[r], rows[r])]

RECURSIVE configsOf(_, _, _)
configsOf(rows, allocation, n) ==
    IF n = 0 THEN << >>
    ELSE configsOf(rows, allocation, n - 1) \o
         [k \in 1..Len(rows[n].cells) |->
            [lineClamp |-> clampLines(allocation[n], rows[n].cells[k]),
             maxHeight |-> textHeight(allocation[n], rows[n].cells[k])]]


\* ------------------------------------------------------- clamp styles of a cell
\* content.style of one cell: webkitLineClamp 'unset' and maxHeight 'none', or the
\* line clamp and max height written by the apply effect
Unclamped == [clamped |-> FALSE, lineClamp |-> 0, maxHeight |-> 0]

Clamped(config) ==
    [clamped |-> TRUE, lineClamp |-> config.lineClamp, maxHeight |-> config.maxHeight]

\* content.scrollHeight as the measurement reads it: the natural height while the
\* cell is unclamped, the clamped box once max-height and line-clamp are in place
\* (the reason the source resets the styles before measuring)
observedScrollHeight(item, style) ==
    IF style.clamped THEN Min(item.scrollHeight, style.maxHeight) ELSE item.scrollHeight

\* mutation: the reset loop leaves the styles as they are
resetStylesSkipped(items, cellStyles) == cellStyles

\* gridItems.forEach(item => { if (content) { webkitLineClamp = 'unset'; ... } })
resetStyles(items, cellStyles) ==
    [k \in 1..Len(items) |-> IF items[k].hasContent THEN Unclamped ELSE cellStyles[k]]

\* the grid items as the measurement sees them under the given styles
observedItems(items, cellStyles) ==
    [k \in 1..Len(items) |->
        [items[k] EXCEPT !.scrollHeight = observedScrollHeight(items[k], cellStyles[k])]]

\* mutation: a missing content element is measured as empty instead of throwing
contentMissingIgnored(items) == FALSE

\* if (!content) throw new Error('markdown-content element not found')
contentMissing(items) == \E k \in 1..Len(items) : ~items[k].hasContent

\* the apply effect: cellConfigs.forEach(config => element.style... = ...)
applyConfigs(configs, cellStyles) ==
    [k \in 1..Len(cellStyles) |->
        IF k <= Len(configs) THEN Clamped(configs[k]) ELSE cellStyles[k]]

\* mutation: the cleanup does not cancel the timer
clearTimeoutMissing(pending, run) == pending

\* clearTimeout(timer) of the effect run `run`
clearTimeout(pending, run) == pending \ {run}

\* getLineHeight and getCellPadding results a cell can have
CellStyles == { << 40, 0 >>, << 80, 40 >> }

\* cells of a row passed in a direct call: one cell (per line 40, no padding), or
\* two cells that average to 80 per line and 40 of padding
CellLists(nat) ==
    { << Cell(nat, 40, 0) >>,
      << Cell(nat, 40, 0), Cell(nat, 120, 80) >> }

RowChoices ==
    UNION { { [cells |-> c, maxNaturalLines |-> nat, minLines |-> mn] :
                c \in CellLists(nat), mn \in 1..MaxMinLines } :
            nat \in 1..MaxNaturalLines }

DirectRows == UNION { [1..n -> RowChoices] : n \in 0..MaxRows }

\* budgets of a direct call: multiples of the smaller line height
Budgets == { 40 * k : k \in 0..MaxBudgetSteps }

GridItems ==
    { GridItem(sh, a[1], a[2]) : sh \in ScrollHeights, a \in CellStyles }

Grids == UNION { [1..n -> GridItems] : n \in 0..MaxGridItems }

\* grids of the mounted hook: any item may lack its content element
HookGrids == UNION { [1..n -> GridItems \cup {BareItem}] : n \in 0..MaxGridItems }

VARIABLES
    pc,                 \* position in calculateOptimalLineDistribution
    rowTextData,        \* argument rowTextData
    maxTotalHeight,     \* argument maxTotalHeight
    currentAllocation,
    currentHeight,      \* times Scale
    rowPriorities,
    priorityIndex,
    iterations,
    result,             \* returned allocation
    hook,               \* "unmounted", "mounted", "measuring", "calculated"
    gridItems,          \* children of gridRef.current
    gridTemplateRows,   \* container.style.gridTemplateRows, as numbers of px
    cellConfigs,
    isCalculated,
    refAttached,        \* gridRef.current is an element
    effectRun,          \* number of the latest run of the measuring effect, 0 before mount
    timers,             \* effect runs whose setTimeout has neither fired nor been cleared
    cleaned,            \* effect runs whose cleanup has run
    passRun,            \* effect run whose timer fired last, 0 if none
    styles,             \* content.style of every grid item
    previous,           \* arguments and result of the call before the current one
    component,          \* RiveToSprite: "unmounted", "mounted", "gone"
    propsVersion,       \* number of the latest props; the effect has run once for each
    exports,            \* exports[k]: "load", "blob", "done", "noContext", "noSpriteContext"
    spriteUrl,          \* 0 for null, k for the URL made by the export for props k
    isLoading,
    staleSet            \* an export set state after a newer export had started

vars == << pc, rowTextData, maxTotalHeight, currentAllocation, currentHeight,
           rowPriorities, priorityIndex, iterations, result,
           hook, gridItems, gridTemplateRows, cellConfigs, isCalculated,
           refAttached, effectRun, timers, cleaned, passRun, styles, previous,
           component, propsVersion, exports, spriteUrl, isLoading, staleSet >>

riveVars == << component, propsVersion, exports, spriteUrl, isLoading, staleSet >>

lifeVars == << refAttached, effectRun, timers, cleaned, passRun, styles, previous >>

hookVars == << hook, gridItems, gridTemplateRows, cellConfigs, isCalculated, lifeVars >>

Init ==
    /\ pc = "idle"
    /\ rowTextData = << >>
    /\ maxTotalHeight = 0
    /\ currentAllocation = << >>
    /\ currentHeight = 0
    /\ rowPriorities = << >>
    /\ priorityIndex = 0
    /\ iterations = 0
    /\ result = << >>
    /\ hook = "unmounted"
    /\ gridItems = << >>
    /\ gridTemplateRows = << >>
    /\ cellConfigs = << >>
    /\ isCalculated = FALSE
    /\ refAttached = FALSE
    /\ effectRun = 0
    /\ timers = {}
    /\ cleaned = {}
    /\ passRun = 0
    /\ styles = << >>
    /\ previous = << >>
    /\ component = "unmounted"
    /\ propsVersion = 0
    /\ exports = << >>
    /\ spriteUrl = 0
    /\ isLoading = TRUE
    /\ staleSet = FALSE

\* a direct call of calculateOptimalLineDistribution(rows, budget)
Call ==
    /\ pc = "idle"
    /\ hook = "unmounted"
    /\ \E rows \in DirectRows, budget \in Budgets :
        /\ rowTextData' = rows
        /\ maxTotalHeight' = budget
    /\ pc' = "ideal"
    /\ UNCHANGED << currentAllocation, currentHeight, rowPriorities,
                    priorityIndex, iterations, result, hookVars >>
    /\ UNCHANGED riveVars

ReturnIdeal ==
    /\ pc = "ideal"
    /\ IdealFits(rowTextData, maxTotalHeight)
    /\ result' = idealAllocation(rowTextData)
    /\ pc' = "returned"
    /\ UNCHANGED << rowTextData, maxTotalHeight, currentAllocation, currentHeight,
                    rowPriorities, priorityIndex, iterations, hookVars >>
    /\ UNCHANGED riveVars

\* BeginDistribution without the fresh `let iterations = 0` of line 191
BeginDistributionStaleIterations ==
    /\ pc = "ideal"
    /\ ~IdealFits(rowTextData, maxTotalHeight)
    /\ currentAllocation' = loopStart(rowTextData).alloc
    /\ currentHeight' = loopStart(rowTextData).height
    /\ rowPriorities' = rowPrioritiesOf(rowTextData)
    /\ priorityIndex' = loopStart(rowTextData).pIndex
    /\ pc' = "loop"
    /\ UNCHANGED << iterations, rowTextData, maxTotalHeight, result, hookVars >>
    /\ UNCHANGED riveVars

BeginDistribution ==
    /\ pc = "ideal"
    /\ ~IdealFits(rowTextData, maxTotalHeight)
    /\ currentAllocation' = loopStart(rowTextData).alloc
    /\ currentHeight' = loopStart(rowTextData).height
    /\ rowPriorities' = rowPrioritiesOf(rowTextData)
    /\ priorityIndex' = loopStart(rowTextData).pIndex
    /\ iterations' = loopStart(rowTextData).iters
    /\ pc' = "loop"
    /\ UNCHANGED << rowTextData, maxTotalHeight, result, hookVars >>
    /\ UNCHANGED riveVars

LoopState ==
    [alloc |-> currentAllocation, height |-> currentHeight,
     pIndex |-> priorityIndex, iters |-> iterations, brk |-> pc = "break"]

SetLoopState(st) ==
    /\ currentAllocation' = st.alloc
    /\ currentHeight' = st.height
    /\ priorityIndex' = st.pIndex
    /\ iterations' = st.iters
    /\ pc' = IF st.brk THEN "break" ELSE "loop"
    /\ UNCHANGED << rowTextData, maxTotalHeight, rowPriorities, result, hookVars >>
    /\ UNCHANGED riveVars

InLoop ==
    /\ pc = "loop"
    /\ loopRuns(maxTotalHeight, rowPriorities, LoopState)

LoopSkip ==
    /\ InLoop
    /\ AlreadyFull(rowTextData, rowPriorities, LoopState)
    /\ SetLoopState(loopStep(rowTextData, maxTotalHeight, rowPriorities, LoopState))

LoopGrant ==
    /\ InLoop
    /\ ~AlreadyFull(rowTextData, rowPriorities, LoopState)
    /\ TestFits(testHeight(rowTextData, rowPriorities, LoopState), maxTotalHeight)
    /\ SetLoopState(loopStep(rowTextData, maxTotalHeight, rowPriorities, LoopState))

LoopReject ==
    /\ InLoop
    /\ ~AlreadyFull(rowTextData, rowPriorities, LoopState)
    /\ ~TestFits(testHeight(rowTextData, rowPriorities, LoopState), maxTotalHeight)
    /\ SetLoopState(loopStep(rowTextData, maxTotalHeight, rowPriorities, LoopState))

ReturnDistribution ==
    /\ pc \in {"loop", "break"}
    /\ ~loopRuns(maxTotalHeight, rowPriorities, LoopState)
    /\ result' = currentAllocation
    /\ pc' = "returned"
    /\ UNCHANGED << rowTextData, maxTotalHeight, currentAllocation, currentHeight,
                    rowPriorities, priorityIndex, iterations, hookVars >>
    /\ UNCHANGED riveVars

\* the component renders its grid items into gridRef.current
Mount ==
    /\ pc = "idle"
    /\ hook = "unmounted"
    /\ \E items \in Grids : gridItems' = items
    /\ hook' = "mounted"
    /\ UNCHANGED << pc, rowTextData, maxTotalHeight, currentAllocation, currentHeight,
                    rowPriorities, priorityIndex, iterations, result,
                    gridTemplateRows, cellConfigs, isCalculated, lifeVars >>
    /\ UNCHANGED riveVars

\* calculateGridWithLineClamp up to the call of calculateOptimalLineDistribution
MeasureGrid ==
    /\ pc = "idle"
    /\ hook = "mounted"
    /\ rowTextData' = rowTextDataOf(gridItems)
    /\ maxTotalHeight' = HeightBudget
    /\ pc' = "ideal"
    /\ hook' = "measuring"
    /\ UNCHANGED << currentAllocation, currentHeight, rowPriorities, priorityIndex,
                    iterations, result, gridItems, gridTemplateRows, cellConfigs,
                    isCalculated, lifeVars >>
    /\ UNCHANGED riveVars

\* calculateGridWithLineClamp after the call returned
ApplyGrid ==
    /\ pc = "returned"
    /\ hook = "measuring"
    /\ gridTemplateRows' = actualRowHeights(rowTextData, result)
    /\ cellConfigs' = configsOf(rowTextData, result, Len(rowTextData))
    /\ isCalculated' = TRUE
    /\ hook' = "calculated"
    /\ UNCHANGED << pc, rowTextData, maxTotalHeight, currentAllocation, currentHeight,
                    rowPriorities, priorityIndex, iterations, result, gridItems,
                    lifeVars >>
    /\ UNCHANGED riveVars

Next ==
    \/ Mount
    \/ MeasureGrid
    \/ ApplyGrid
    \/ Call
    \/ ReturnIdeal
    \/ BeginDistribution
    \/ LoopSkip
    \/ LoopGrant
    \/ LoopReject
    \/ ReturnDistribution

Spec == Init /\ [][Next]_vars

\* ------------------------------------------------------- useGridWithLineClamp
allocatorVars == << pc, rowTextData, maxTotalHeight, currentAllocation, currentHeight,
                    rowPriorities, priorityIndex, iterations, result >>

HookIdle == hook \in {"mounted", "failed", "settled"}

\* one run of the measuring effect: if (!gridRef.current) return;
\* timer = setTimeout(calculateGridWithLineClamp, 0)
scheduleEffect(pending, run, attached) ==
    IF attached THEN pending \cup {run} ELSE pending

\* first render and commit: the measuring effect runs for the first time; the apply
\* effect finds isCalculated false
HookMount ==
    /\ pc = "idle"
    /\ hook = "unmounted"
    /\ \E items \in HookGrids, attached \in BOOLEAN :
        /\ gridItems' = items
        /\ styles' = [k \in 1..Len(items) |-> Unclamped]
        /\ refAttached' = attached
        /\ timers' = scheduleEffect(timers, 1, attached)
    /\ effectRun' = 1
    /\ hook' = "mounted"
    /\ UNCHANGED << allocatorVars, gridTemplateRows, cellConfigs, isCalculated,
                    cleaned, passRun, previous >>
    /\ UNCHANGED riveVars

\* a render with changed dependencies: cleanup of the previous run, then a new run
DependenciesChange ==
    /\ HookIdle
    /\ effectRun < MaxEffectRuns
    /\ cleaned' = cleaned \cup {effectRun}
    /\ effectRun' = effectRun + 1
    /\ timers' = scheduleEffect(clearTimeout(timers, effectRun), effectRun + 1, refAttached)
    /\ UNCHANGED << allocatorVars, hook, gridItems, gridTemplateRows, cellConfigs,
                    isCalculated, refAttached, passRun, styles, previous >>
    /\ UNCHANGED riveVars

\* unmount: cleanup of the current run, gridRef.current becomes null
HookUnmount ==
    /\ HookIdle
    /\ cleaned' = cleaned \cup {effectRun}
    /\ timers' = clearTimeout(timers, effectRun)
    /\ refAttached' = FALSE
    /\ hook' = "gone"
    /\ UNCHANGED << allocatorVars, gridItems, gridTemplateRows, cellConfigs,
                    isCalculated, effectRun, passRun, styles, previous >>
    /\ UNCHANGED riveVars

\* a timer fires: calculateGridWithLineClamp starts and resets the clamp styles
TimerFires ==
    /\ hook \in {"mounted", "failed", "settled", "gone"}
    /\ \E run \in timers :
        /\ timers' = timers \ {run}
        /\ passRun' = run
    /\ IF refAttached
       THEN /\ styles' = resetStyles(gridItems, styles)
            /\ hook' = "reset"
       ELSE UNCHANGED << styles, hook >>
    /\ UNCHANGED << allocatorVars, gridItems, gridTemplateRows, cellConfigs,
                    isCalculated, refAttached, effectRun, cleaned, previous >>
    /\ UNCHANGED riveVars

\* the measurement throws on a cell without content
MeasureThrows ==
    /\ hook = "reset"
    /\ contentMissing(gridItems)
    /\ hook' = "failed"
    /\ UNCHANGED << allocatorVars, gridItems, gridTemplateRows, cellConfigs,
                    isCalculated, lifeVars >>
    /\ UNCHANGED riveVars

\* the measurement succeeds and calculateOptimalLineDistribution is called
MeasurePass ==
    /\ hook = "reset"
    /\ ~contentMissing(gridItems)
    /\ previous' = IF pc = "returned"
                   THEN << [rows |-> rowTextData, budget |-> maxTotalHeight,
                            result |-> result] >>
                   ELSE << >>
    /\ rowTextData' = rowTextDataOf(observedItems(gridItems, styles))
    /\ maxTotalHeight' = HeightBudget
    /\ pc' = "ideal"
    /\ hook' = "measuring"
    /\ UNCHANGED << currentAllocation, currentHeight, rowPriorities, priorityIndex,
                    iterations, result, gridItems, gridTemplateRows, cellConfigs,
                    isCalculated, refAttached, effectRun, timers, cleaned, passRun,
                    styles >>
    /\ UNCHANGED riveVars

\* the apply effect after setCellConfigs and setIsCalculated
ApplyClamps ==
    /\ hook = "calculated"
    /\ styles' = IF isCalculated /\ Len(cellConfigs) > 0
                 THEN applyConfigs(cellConfigs, styles)
                 ELSE styles
    /\ hook' = "settled"
    /\ UNCHANGED << allocatorVars, gridItems, gridTemplateRows, cellConfigs,
                    isCalculated, refAttached, effectRun, timers, cleaned, passRun,
                    previous >>
    /\ UNCHANGED riveVars

AllocatorStep ==
    \/ ReturnIdeal
    \/ BeginDistribution
    \/ LoopSkip
    \/ LoopGrant
    \/ LoopReject
    \/ ReturnDistribution

HookNext ==
    \/ HookMount
    \/ DependenciesChange
    \/ HookUnmount
    \/ TimerFires
    \/ MeasureThrows
    \/ MeasurePass
    \/ ReturnIdeal
    \/ BeginDistribution
    \/ LoopSkip
    \/ LoopGrant
    \/ LoopReject
    \/ ReturnDistribution
    \/ ApplyGrid
    \/ ApplyClamps

HookSpec == Init /\ [][HookNext]_vars
\* One mount and its measurement pass, with no dependency change and no unmount
PassNext ==
    \/ HookMount
    \/ TimerFires
    \/ MeasureThrows
    \/ MeasurePass
    \/ ReturnIdeal
    \/ BeginDistribution
    \/ LoopSkip
    \/ LoopGrant
    \/ LoopReject
    \/ ReturnDistribution
    \/ ApplyGrid
    \/ ApplyClamps

\* A call runs to its return: the function is synchronous, so once the pass has
\* entered it, its steps are taken until none is left.
FairSpec == Init /\ [][PassNext]_vars /\ WF_vars(AllocatorStep)

\* ---------------------------------------------------------------- RiveToSprite
\* exportSprite up to its first await: canvasRef.current is the canvas the component
\* always renders; without a 2d context the call returns at once, otherwise it
\* creates the Rive instance and awaits its load event
exportSprite(ctx) == IF ctx THEN "load" ELSE "noContext"

\* the effect of the first commit calls exportSprite for the first props
RiveToSpriteMount ==
    /\ pc = "idle"
    /\ hook = "unmounted"
    /\ component = "unmounted"
    /\ component' = "mounted"
    /\ propsVersion' = 1
    /\ \E ctx \in BOOLEAN : exports' = << exportSprite(ctx) >>
    /\ UNCHANGED << spriteUrl, isLoading, staleSet >>
    /\ UNCHANGED << allocatorVars, hookVars >>

\* src, animation, frames, fps, width or height change: the effect runs again and
\* calls exportSprite for the new props on the same canvas; it returns no cleanup,
\* so the calls for earlier props go on
PropsChange ==
    /\ component = "mounted"
    /\ propsVersion < MaxPropsVersions
    /\ propsVersion' = propsVersion + 1
    /\ exports' = Append(exports, exportSprite(exports[1] # "noContext"))
    /\ UNCHANGED << component, spriteUrl, isLoading, staleSet >>
    /\ UNCHANGED << allocatorVars, hookVars >>

\* the load event of export k: the frames are drawn and read, the sprite canvas is
\* filled and toBlob is awaited, unless the sprite canvas has no 2d context
RiveLoad ==
    /\ \E k \in 1..Len(exports), spriteCtx \in BOOLEAN :
        /\ exports[k] = "load"
        /\ exports' = [exports EXCEPT ![k] = IF spriteCtx THEN "blob" ELSE "noSpriteContext"]
    /\ UNCHANGED << component, propsVersion, spriteUrl, isLoading, staleSet >>
    /\ UNCHANGED << allocatorVars, hookVars >>

\* toBlob of export k resolves: setSpriteUrl(url) if there is a blob, then
\* setIsLoading(false); React drops both on an unmounted component
ToBlobResolves ==
    /\ \E k \in 1..Len(exports), blob \in BOOLEAN :
        /\ exports[k] = "blob"
        /\ exports' = [exports EXCEPT ![k] = "done"]
        /\ IF component = "mounted"
           THEN /\ spriteUrl' = IF blob THEN k ELSE spriteUrl
                /\ isLoading' = FALSE
                /\ staleSet' = (staleSet \/ k < propsVersion)
           ELSE UNCHANGED << spriteUrl, isLoading, staleSet >>
    /\ UNCHANGED << component, propsVersion >>
    /\ UNCHANGED << allocatorVars, hookVars >>

RiveToSpriteUnmount ==
    /\ component = "mounted"
    /\ component' = "gone"
    /\ UNCHANGED << propsVersion, exports, spriteUrl, isLoading, staleSet >>
    /\ UNCHANGED << allocatorVars, hookVars >>

RiveNext ==
    \/ RiveToSpriteMount
    \/ PropsChange
    \/ RiveLoad
    \/ ToBlobResolves
    \/ RiveToSpriteUnmount

RiveSpec == Init /\ [][RiveNext]_vars

\* ================================================================== claims
Rows == 1..Len(rowTextData)

\* Sum of rowHeight(allocation[i], i), times Scale, written out from the row fields
HeightOf(allocation) ==
    SumOver([i \in Rows |->
                allocation[i] * rowAvgLineHeight(rowTextData[i])
                    + rowAvgPadding(rowTextData[i])],
            Len(rowTextData))

MinLinesAllocation == [i \in Rows |-> rowTextData[i].minLines]

IdealLinesAllocation ==
    [i \in Rows |-> Max(rowTextData[i].maxNaturalLines, rowTextData[i].minLines)]

AllMinimumFits == HeightOf(MinLinesAllocation) <= Scale * maxTotalHeight

Called == pc # "idle"
InPhase2 == pc \in {"loop", "break"}
Returned == pc \in {"returned"}
ReturnedFromPhase2 == Returned /\ HeightOf(IdealLinesAllocation) > Scale * maxTotalHeight

\* C1: budget invariant.  When the all-minimum allocation fits in maxTotalHeight,
\* currentAllocation fits after every phase-2 iteration and so does the returned
\* allocation.
C1_BudgetInvariant ==
    AllMinimumFits =>
        /\ InPhase2 => HeightOf(currentAllocation) <= Scale * maxTotalHeight
        /\ Returned => HeightOf(result) <= Scale * maxTotalHeight

\* a phase-2 return in which lines were granted on top of a fitting minimum
C1_Witness ==
    /\ ReturnedFromPhase2
    /\ AllMinimumFits
    /\ \E i \in Rows : result[i] > rowTextData[i].minLines

\* C2: floor invariant.  Every returned allocation gives every row at least its
\* minLines, on the ideal-fit return, on convergence and at the iteration cap.
C2_FloorInvariant ==
    Returned => \A i \in Rows : result[i] >= rowTextData[i].minLines

\* a return at the iteration cap with minLines above 1 and a granted line
C2_Witness ==
    /\ ReturnedFromPhase2
    /\ iterations = MaxIterations
    /\ \E i \in Rows : rowTextData[i].minLines > 1
    /\ \E i \in Rows : result[i] > rowTextData[i].minLines

\* C3 as stated: ceiling invariant.  Every returned allocation gives every row at
\* most its maxNaturalLines, also when the row's minLines exceeds maxNaturalLines.
C3_CeilingAsStated ==
    Returned => \A i \in Rows : result[i] <= rowTextData[i].maxNaturalLines

\* C3 amended: every returned allocation gives every row at most
\* max(maxNaturalLines, minLines).
C3_CeilingAmended ==
    Returned =>
        \A i \in Rows :
            result[i] <= Max(rowTextData[i].maxNaturalLines, rowTextData[i].minLines)

\* a phase-2 return where one row sits at minLines above its maxNaturalLines and
\* another row was granted lines
C3_Witness ==
    /\ ReturnedFromPhase2
    /\ \E i \in Rows : /\ rowTextData[i].minLines > rowTextData[i].maxNaturalLines
                       /\ result[i] = rowTextData[i].minLines
    /\ \E i \in Rows : result[i] > rowTextData[i].minLines

\* C4: ideal shortcut.  When the ideal allocation fits in maxTotalHeight the call
\* never enters phase 2 and returns exactly the ideal allocation.
C4_IdealShortcut ==
    (Called /\ HeightOf(IdealLinesAllocation) <= Scale * maxTotalHeight) =>
        /\ ~InPhase2
        /\ Returned => result = IdealLinesAllocation

\* an ideal-fit return of exactly maxTotalHeight, with a floor-dominated row
C4_Witness ==
    /\ Returned
    /\ Len(rowTextData) > 1
    /\ HeightOf(IdealLinesAllocation) = Scale * maxTotalHeight
    /\ \E i \in Rows : rowTextData[i].minLines > rowTextData[i].maxNaturalLines
    /\ result = IdealLinesAllocation

\* C6: budget infeasibility.  When the all-minimum allocation costs at least
\* maxTotalHeight the call returns exactly minLines for every row.
C6_InfeasibleReturnsMinimum ==
    (Returned /\ HeightOf(MinLinesAllocation) >= Scale * maxTotalHeight) =>
        result = MinLinesAllocation

\* maxTotalHeight = 0, a row that wants more than its minimum of 2 lines
C6_Witness ==
    /\ Returned
    /\ maxTotalHeight = 0
    /\ \E i \in Rows : /\ rowTextData[i].minLines > 1
                       /\ rowTextData[i].maxNaturalLines > rowTextData[i].minLines
    /\ result = MinLinesAllocation

\* C8: a row with minLines >= maxNaturalLines is not in the priority order, keeps
\* minLines through every phase-2 iteration and has minLines in the result.
C8_FloorRowUntouched ==
    \A i \in Rows :
        rowTextData[i].minLines >= rowTextData[i].maxNaturalLines =>
            /\ InPhase2 =>
                /\ \A k \in 1..Len(rowPriorities) : rowPriorities[k].index # i
                /\ currentAllocation[i] = rowTextData[i].minLines
            /\ Returned => result[i] = rowTextData[i].minLines

\* a phase-2 return that granted a line to one row and left a row with
\* minLines = maxNaturalLines at its minimum
C8_Witness ==
    /\ ReturnedFromPhase2
    /\ \E i \in Rows : /\ rowTextData[i].minLines = rowTextData[i].maxNaturalLines
                       /\ result[i] = rowTextData[i].minLines
    /\ \E i \in Rows : result[i] > rowTextData[i].minLines
\* C5 as stated: monotonicity.  For the rows of a call and any larger budget, the
\* allocation at the larger budget is at least the returned one in every row.
C5_MonotoneAsStated ==
    Returned =>
        \A b2 \in Budgets :
            b2 >= maxTotalHeight =>
                \A i \in Rows :
                    calculateOptimalLineDistribution(rowTextData, b2)[i] >= result[i]

EqualLineHeights ==
    \A i, j \in Rows :
        rowAvgLineHeight(rowTextData[i]) = rowAvgLineHeight(rowTextData[j])

\* C5 amended: monotonicity holds when all rows have the same average line height.
C5_MonotoneEqualLineHeights ==
    (Returned /\ EqualLineHeights) =>
        \A b2 \in Budgets :
            b2 >= maxTotalHeight =>
                \A i \in Rows :
                    calculateOptimalLineDistribution(rowTextData, b2)[i] >= result[i]

\* two rows of equal line height, a phase-2 return with a granted line, and a
\* larger budget that gives some row strictly more
C5_Witness ==
    /\ ReturnedFromPhase2
    /\ EqualLineHeights
    /\ Len(rowTextData) > 1
    /\ \E i \in Rows : result[i] > rowTextData[i].minLines
    /\ \E b2 \in Budgets :
        /\ b2 > maxTotalHeight
        /\ \E i \in Rows :
            calculateOptimalLineDistribution(rowTextData, b2)[i] > result[i]

SingleRowOverBudget ==
    /\ Returned
    /\ Len(rowTextData) = 1
    /\ HeightOf(IdealLinesAllocation) > Scale * maxTotalHeight

\* C7 as stated: a single row whose ideal allocation exceeds the budget is
\* returned at exactly minLines.
C7_SingleRowAsStated ==
    SingleRowOverBudget => result = << rowTextData[1].minLines >>

\* C7 amended: a single row whose ideal allocation exceeds the budget is returned
\* at minLines plus the additional lines that fit: the result is at least
\* minLines, fits the budget if any line was added, and one more line would not
\* fit unless MaxIterations lines were already added.
C7_SingleRowAmended ==
    SingleRowOverBudget =>
        /\ result[1] >= rowTextData[1].minLines
        /\ result[1] > rowTextData[1].minLines =>
                HeightOf(result) <= Scale * maxTotalHeight
        /\ \/ result[1] - rowTextData[1].minLines = MaxIterations
           \/ HeightOf(<< result[1] + 1 >>) > Scale * maxTotalHeight

\* a single row returned above minLines at exactly the budget
C7_Witness ==
    /\ SingleRowOverBudget
    /\ result[1] > rowTextData[1].minLines
    /\ HeightOf(result) = Scale * maxTotalHeight

HookCalculated == hook = "calculated"

\* C9: when the all-minimum allocation fits in 740, the row heights applied to
\* gridTemplateRows sum to at most 740.
C9_GridHeightWithinBudget ==
    (HookCalculated /\ HeightOf(MinLinesAllocation) <= Scale * HeightBudget) =>
        SumOver(gridTemplateRows, Len(gridTemplateRows)) <= HeightBudget

\* C10: every row height applied to gridTemplateRows is at least the height of
\* the row's minimum allocation, minLines * avgLineHeight + avgPadding.
C10_RowsMeetMinimumHeight ==
    HookCalculated =>
        \A r \in 1..Len(gridTemplateRows) :
            Scale * gridTemplateRows[r] >=
                rowTextData[r].minLines * rowAvgLineHeight(rowTextData[r])
                    + rowAvgPadding(rowTextData[r])
\* The arguments of the call in progress equal those of the hook's previous pass
SameArguments ==
    /\ previous # << >>
    /\ previous[1].rows = rowTextData
    /\ previous[1].budget = maxTotalHeight

\* C11: idempotence and purity.  A call whose rowTextData and maxTotalHeight equal
\* those of the previous call returns the same allocation, and no step of a call
\* changes rowTextData or maxTotalHeight.
C11_IdempotentAndPure ==
    /\ [](Returned /\ SameArguments => result = previous[1].result)
    /\ [][(pc \in {"ideal", "loop", "break"}) =>
            (rowTextData' = rowTextData /\ maxTotalHeight' = maxTotalHeight)]_vars

\* A second pass over the same measurements returned a phase-2 allocation with
\* granted lines after the loop ran to its iteration cap.
C11_Witness ==
    /\ ReturnedFromPhase2
    /\ SameArguments
    /\ iterations = MaxIterations
    /\ \E i \in Rows : result[i] > rowTextData[i].minLines

\* Lines granted above the all-minimum allocation
GrantedLines(allocation) ==
    SumOver([i \in Rows |-> allocation[i] - rowTextData[i].minLines], Len(rowTextData))

\* C12: bounded termination.  Every call returns; the loop body that attempts an
\* increment runs at most MaxIterations times, the lines granted never exceed the
\* counted iterations, a skip leaves the counter alone and moves the pointer one
\* step on without wrapping, and the allocation returned from phase 2, at the cap
\* too, is the accumulated currentAllocation with at most MaxIterations lines
\* granted.
C12_BoundedTermination ==
    /\ [](InPhase2 => iterations <= MaxIterations /\ GrantedLines(currentAllocation) <= iterations)
    /\ [](ReturnedFromPhase2 =>
            result = currentAllocation /\ GrantedLines(result) <= MaxIterations)
    /\ [][(pc = "loop" /\ pc' = "loop" /\ iterations' = iterations) =>
            (priorityIndex' = priorityIndex + 1 /\ currentAllocation' = currentAllocation)]_vars
    /\ ((pc = "ideal") ~> (pc = "returned"))

\* Phase 2 returned at the iteration cap after passing over a full row on every
\* round: one row of the priority order is full and another still needs lines.
C12_Witness ==
    /\ ReturnedFromPhase2
    /\ iterations = MaxIterations
    /\ \E k \in 1..Len(rowPriorities) :
        result[rowPriorities[k].index] >= rowTextData[rowPriorities[k].index].maxNaturalLines
    /\ \E k \in 1..Len(rowPriorities) :
        result[rowPriorities[k].index] < rowTextData[rowPriorities[k].index].maxNaturalLines

\* Row i cannot take one more line within the budget
CannotTakeOneMore(allocation, i) ==
    HeightOf([allocation EXCEPT ![i] = @ + 1]) > Scale * maxTotalHeight

\* C13: maximality on convergence.  When phase 2 returns after fewer than
\* MaxIterations counted iterations, every row of the returned allocation is at or
\* above its maxNaturalLines or cannot take one more line within maxTotalHeight.
C13_MaximalOnConvergence ==
    (ReturnedFromPhase2 /\ iterations < MaxIterations) =>
        \A i \in Rows :
            \/ result[i] >= rowTextData[i].maxNaturalLines
            \/ CannotTakeOneMore(result, i)

\* Phase 2 granted lines and left the loop before the cap, with a row still below
\* its maxNaturalLines that has no room for one more line.
C13_Witness ==
    /\ ReturnedFromPhase2
    /\ iterations < MaxIterations
    /\ AllMinimumFits
    /\ \E i \in Rows : result[i] > rowTextData[i].minLines
    /\ \E i \in Rows :
        result[i] < rowTextData[i].maxNaturalLines /\ CannotTakeOneMore(result, i)

\* maxNaturalLines - minLines of the row at position k of the priority order
NeedAt(k) ==
    rowTextData[rowPriorities[k].index].maxNaturalLines
        - rowTextData[rowPriorities[k].index].minLines

\* The priority order holds exactly the rows that need lines, by need descending,
\* rows of equal need in their original order
PriorityOrdered ==
    /\ {rowPriorities[k].index : k \in 1..Len(rowPriorities)}
          = {i \in Rows : rowTextData[i].maxNaturalLines > rowTextData[i].minLines}
    /\ \A k \in 1..Len(rowPriorities) : \A l \in 1..Len(rowPriorities) :
          k < l =>
              \/ NeedAt(k) > NeedAt(l)
              \/ NeedAt(k) = NeedAt(l) /\ rowPriorities[k].index < rowPriorities[l].index

\* The row at position j is full or its next line does not fit at the current height
PassedOver(j) ==
    \/ currentAllocation[rowPriorities[j].index]
          >= rowTextData[rowPriorities[j].index].maxNaturalLines
    \/ HeightOf([currentAllocation EXCEPT ![rowPriorities[j].index] = @ + 1])
          > Scale * maxTotalHeight

\* A step of the loop that grants a line grants it to the row under the pointer,
\* with every row ahead of it passed over, and keeps the pointer on the row unless
\* the row has become full
GrantInOrder ==
    (pc = "loop" /\ currentAllocation' # currentAllocation) =>
        /\ priorityIndex < Len(rowPriorities)
        /\ currentAllocation' =
              [currentAllocation EXCEPT ![rowPriorities[priorityIndex + 1].index] = @ + 1]
        /\ \A j \in 1..priorityIndex : PassedOver(j)
        /\ (currentAllocation'[rowPriorities[priorityIndex + 1].index]
                < rowTextData[rowPriorities[priorityIndex + 1].index].maxNaturalLines)
            => (pc' = "loop" /\ priorityIndex' = priorityIndex)

\* C14: priority service order.  In phase 2 the rows are ordered by
\* maxNaturalLines - minLines descending with ties in original row order; a line is
\* granted to a row only when every row ahead of it in that order is at its
\* maxNaturalLines or cannot fit one more line at the current height; the pointer
\* stays on a row while its increments keep fitting.
C14_PriorityServiceOrder ==
    /\ [](InPhase2 => PriorityOrdered)
    /\ [][GrantInOrder]_vars

\* Two rows of equal need are in the priority order and the second of them has
\* been granted a line after the first was passed over.
C14_Witness ==
    /\ InPhase2
    /\ Len(rowPriorities) = 2
    /\ NeedAt(1) = NeedAt(2)
    /\ priorityIndex = 1
    /\ currentAllocation[rowPriorities[2].index]
          > rowTextData[rowPriorities[2].index].minLines
    /\ currentAllocation[rowPriorities[1].index]
          < rowTextData[rowPriorities[1].index].maxNaturalLines

\* Lines that the rows of the priority order could be granted in total
TotalNeed ==
    SumOver([i \in Rows |-> remainingNeed(rowTextData[i])], Len(rowTextData))

\* C15: convergence without the safety valve.  Whenever fewer than MaxIterations
\* lines can be granted in total, phase 2 returns before the iteration counter
\* reaches MaxIterations: a pass over the priority order that grants nothing ends
\* the loop.
C15_ConvergesBeforeCap ==
    (ReturnedFromPhase2 /\ TotalNeed < MaxIterations) => iterations < MaxIterations

\* No content element carries a clamp
AllUnclamped ==
    \A k \in 1..Len(styles) : gridItems[k].hasContent => styles[k] = Unclamped

\* A step writes a clamp to some content element
WritesClamp ==
    \E k \in 1..Len(styles') :
        styles'[k].clamped /\ (k > Len(styles) \/ styles'[k] # styles[k])

\* C16: two-pass ordering.  In every measurement pass the clamp styles of all cells
\* are reset before the natural heights are read, the allocator works on the
\* measurements of the unclamped cells, and clamp styles are written only by the
\* apply effect after the pass has set its state; on the first pass and on re-runs
\* with the clamps of an earlier pass in place.
C16_TwoPassOrdering ==
    /\ [](hook \in {"reset", "measuring", "calculated"} => AllUnclamped)
    /\ [](hook \in {"measuring", "calculated"} => rowTextData = rowTextDataOf(gridItems))
    /\ [][WritesClamp => (hook = "calculated" /\ hook' = "settled" /\ isCalculated)]_vars

\* A re-run measures while the configs of the earlier pass, which cut a cell below
\* its natural height, are still in cellConfigs and were applied before the reset.
C16_Witness ==
    /\ hook = "measuring"
    /\ passRun > 1
    /\ isCalculated
    /\ previous # << >>
    /\ \E k \in 1..Len(cellConfigs) : cellConfigs[k].maxHeight < gridItems[k].scrollHeight

\* Some grid cell has no '#markdownContent' element
SomeContentMissing == \E k \in 1..Len(gridItems) : ~gridItems[k].hasContent

\* Every measured cell of rowTextData has at least one line
NoZeroLineCell ==
    \A i \in Rows : \A c \in 1..Len(rowTextData[i].cells) :
        rowTextData[i].cells[c].naturalLines >= 1

\* C17: missing content aborts the pass.  When a grid cell has no content element
\* the pass throws after the reset and before the allocator is called: it changes
\* neither the allocator's variables, nor the grid's row heights, nor cellConfigs,
\* nor isCalculated, and the allocator never runs on a grid with a missing content
\* element or on a cell measured as zero lines.
C17_MissingContentAborts ==
    /\ [][(hook = "reset" /\ SomeContentMissing) =>
            (hook' = "failed" /\ UNCHANGED << allocatorVars, gridTemplateRows,
                                               cellConfigs, isCalculated >>)]_vars
    /\ [](SomeContentMissing =>
            (pc = "idle" /\ ~isCalculated /\ cellConfigs = << >> /\ gridTemplateRows = << >>))
    /\ [](hook \in {"measuring", "calculated", "settled"} => NoZeroLineCell)

\* A pass over a grid with one cell with content and one without has thrown: the
\* styles were reset, nothing else was set.
C17_Witness ==
    /\ hook = "failed"
    /\ passRun >= 1
    /\ SomeContentMissing
    /\ \E k \in 1..Len(gridItems) : gridItems[k].hasContent
    /\ pc = "idle"
    /\ ~isCalculated

\* A measurement pass is between its start and its apply effect
PassInProgress == hook \in {"reset", "measuring", "calculated"}

\* The pass of the current effect run is pending, has started, or was cancelled
CurrentRunScheduled ==
    effectRun >= 1 => (effectRun \in timers \/ passRun = effectRun \/ effectRun \in cleaned)

\* At most one pass is pending, it belongs to the current run, and neither a
\* pending pass nor a pass in progress belongs to a run that has been cleaned up
CancelledNeverRuns ==
    /\ Cardinality(timers) <= 1
    /\ timers \subseteq {effectRun}
    /\ timers \cap cleaned = {}
    /\ PassInProgress => passRun \notin cleaned
    /\ passRun \in cleaned => (passRun < effectRun \/ hook = "gone")

\* C18 as stated: every run of the measuring effect schedules exactly one deferred
\* pass, the cleanup cancels it, at most one pass is pending and no pass of a
\* cleaned-up run executes.
C18_CancellationAsStated ==
    /\ CurrentRunScheduled
    /\ CancelledNeverRuns

\* C18, amended: every run of the measuring effect that finds gridRef.current set
\* schedules exactly one deferred pass and a run that finds it null schedules none;
\* the cleanup cancels the pass, at most one pass is pending and no pass of a
\* cleaned-up run executes.
C18_CancellationAmended ==
    /\ refAttached => CurrentRunScheduled
    /\ (effectRun >= 1 /\ ~refAttached) => timers = {}
    /\ CancelledNeverRuns

\* The first run was cleaned up by a dependency change before its pass started, and
\* the pass now in progress is the second run's.
C18_Witness ==
    /\ effectRun = 2
    /\ 1 \in cleaned
    /\ passRun = 2
    /\ hook = "measuring"
    /\ previous = << >>
    /\ ~isCalculated

\* No exportSprite call is still awaiting
ExportsSettled ==
    \A k \in 1..Len(exports) : exports[k] \in {"noContext", "noSpriteContext", "done"}

\* C19: RiveToSprite export freshness.  Once every export has finished, a sprite
\* URL in state is the one made by the export for the latest props, and no export
\* for older props sets spriteUrl or isLoading after a newer export has started.
C19_ExportFreshness ==
    /\ ~staleSet
    /\ (component = "mounted" /\ ExportsSettled /\ spriteUrl # 0) => spriteUrl = propsVersion

\* the step-wise run and the function as a whole agree on every call
StepsAgreeWithFunction ==
    Returned => result = calculateOptimalLineDistribution(rowTextData, maxTotalHeight)
====
